---- MODULE Spec2Model ----
(***************************************************************************)
(* Polite-crawling runtime of the Leaf Cutter scraping framework:          *)
(*   - RateLimiter / AdaptiveRateLimiter   (06_utils/04_rate_limiter.py)   *)
(*   - ProxyManager                        (06_utils/05_proxy_manager.py)  *)
(*   - BaseAnt.scrape / _fetch_with_retry  (01_ant_anatomy/01_base_ant.py) *)
(*   - DomainRateLimiter                   (06_utils/04_rate_limiter.py)   *)
(*   - output writers                      (06_utils/06_output_writer.py)  *)
(*   - pagination helpers                  (01_ant_anatomy/05_templates)   *)
(*                                                                         *)
(* Time is a discrete clock.  One tick is 1/TicksPerSecond seconds.        *)
(* Each component has its own specification; the variables of the other    *)
(* components stay at their idle values.                                   *)
(***************************************************************************)
EXTENDS Integers, Sequences, FiniteSets, TLC

\* ------------------------------------------------------------------------
\* Bounds of the model
\* ------------------------------------------------------------------------
NumThreads == 2
MaxTime == 3
MaxBurst == 2
MaxInterval == 2
MaxCalls == 3
MaxEvents == 3
MaxRetryCount == 3
MaxPool == 2
MaxRecords == 2
MaxWriterOps == 3
MaxPages == 3
BlockSeconds == {0, 1, 2}
TicksPerSecond == 2

Threads == 1..NumThreads
NoThread == 0

Min(a, b) == IF a <= b THEN a ELSE b
Max(a, b) == IF a >= b THEN a ELSE b

VARIABLES
    clock,          \* time.time(), in ticks
    \* RateLimiter
    burst,          \* self.burst
    min_interval,   \* self.min_interval = 1 / requests_per_second, in ticks
    tokens,         \* self.tokens, scaled: tokens * min_interval
    last_update,    \* self.last_update
    rl_lock,        \* holder of self._lock, NoThread when free
    pc,             \* position of each thread in wait()
    wake,           \* end of each thread's time.sleep(wait_time)
    calls,          \* wait() calls started (history)
    returned,       \* wait() calls returned (history)
    first_call,     \* time of the first wait() call (history)
    last_return,    \* time of the latest wait() return (history)
    \* AdaptiveRateLimiter
    current_rate,   \* self.current_rate, a rational <<num, den>>
    min_rate,       \* self.min_rate
    max_rate,       \* self.max_rate
    limiter,        \* self.limiter, the wrapped RateLimiter
    events,         \* feedback events recorded (history)
    a_waits,        \* the latest two wait() returns of the AdaptiveRateLimiter (history)
    \* BaseAnt
    retry_count,    \* self.config.retry_count
    retry_delay,    \* self.config.retry_delay, in ticks
    retry_backoff,  \* self.config.retry_backoff
    last_request_time, \* self._last_request_time, -1 for a missing key
    metrics,        \* self.metrics
    f_pc,           \* position of the scrape() call: "start", "loop", "fetched", "done"
    url,            \* scrape()'s url
    start_time,     \* scrape()'s start_time
    attempt,        \* _fetch_with_retry's attempt
    delay,          \* _fetch_with_retry's delay, in ticks
    response,       \* what _fetch_with_retry returned
    result,         \* what scrape() returned, or the exception it raised
    outcomes,       \* outcome of each attempt of this scrape (history)
    send_times,     \* time each attempt was sent (history)
    sleeps,         \* each time.sleep of the retry loop, in ticks (history)
    rate_limit_waits, \* time each _apply_rate_limit of this scrape returned (history)
    feedback,       \* each record_* call this scrape made on a collaborator (history)
    \* ProxyManager
    proxies,        \* self.proxies
    stats,          \* self.stats, a defaultdict(ProxyStats)
    rotation_strategy, \* self.rotation_strategy
    current_index,  \* self._current_index
    records,        \* record_success / record_failure calls made (history)
    last_failure,   \* time and block_seconds of each key's latest record_failure, if it quarantined (history)
    last_get,       \* what get_next() returned, if the latest step was a get_next() (history)
    \* DomainRateLimiter
    default_rate,   \* self.default_rate, a rational <<num, den>> of requests per tick
    domain_rates,   \* self.domain_rates, NoRate for a missing key
    limiters,       \* self.limiters, NoLimiter for a missing key
    d_lock,         \* holder of DomainRateLimiter._lock, NoThread when free
    d_pc,           \* position of each thread in wait(url) / wait_for_domain(domain)
    d_host,         \* the domain of each thread's call
    d_wake,         \* end of each thread's time.sleep(wait_time)
    d_fresh,        \* no set_rate for the call's domain since the call began (history)
    paced,          \* domain and limiter min_interval of the wait that the latest step
                    \* completed, if it began after the domain's latest set_rate (history)
    \* output writers
    writers,        \* the JsonLinesWriter, CsvWriter and JsonArrayWriter of a MultiFormatWriter
    multi_closed,   \* the latest call on a writer was MultiFormatWriter.close() (history)
    multi_failed,   \* the item of the latest MultiFormatWriter.write() and the formats that
                    \* had recorded it, if that call raised (history)
    mismatch_outcomes, \* what became of the csv rows whose fields were not the columns (history)
    w_last,         \* the latest call on a writer and what it did (history)
    w_ops,          \* calls made on the writers (history)
    \* add_proxy / remove_proxy called from several threads
    p_pc,           \* position of each thread: "idle", "filtered" (in remove_proxy), "done"
    p_call,         \* the call each thread made (history)
    p_new,          \* the list remove_proxy built and has not yet assigned
    \* pagination helpers
    pg_helper,      \* the helper that was called
    max_pages,      \* self.max_pages, or paginate's max_pages argument
    pg_pc,          \* position of the call: "loop", "done"
    page,           \* the helper's page
    cursor,         \* paginate_cursor's cursor, "" for None
    pg_calls,       \* scrape calls the helper made, counted up to MaxScrapeCalls (history)
    pg_result       \* what the latest scrape call returned (history)

rlVars == <<burst, min_interval, tokens, last_update, rl_lock, pc, wake,
            calls, returned, first_call, last_return>>
arlVars == <<current_rate, min_rate, max_rate, limiter, events, a_waits>>
antVars == <<retry_count, retry_delay, retry_backoff, last_request_time, metrics,
             f_pc, url, start_time, attempt, delay, response, result, outcomes,
             send_times, sleeps, rate_limit_waits, feedback>>
pmVars == <<proxies, stats, rotation_strategy, current_index, records, last_failure,
            last_get>>
drlVars == <<default_rate, domain_rates, limiters, d_lock, d_pc, d_host, d_wake,
             d_fresh, paced>>
owVars == <<writers, multi_closed, multi_failed, mismatch_outcomes, w_last, w_ops>>
poolVars == <<p_pc, p_call, p_new>>
pgVars == <<pg_helper, max_pages, pg_pc, page, cursor, pg_calls, pg_result>>

\* ------------------------------------------------------------------------
\* RateLimiter
\* ------------------------------------------------------------------------
\* tokens is kept scaled by min_interval, so that
\*   tokens + time_passed / min_interval   is   tokens + time_passed
\*   tokens >= 1                           is   tokens >= min_interval
\*   (1 - tokens) * min_interval           is   min_interval - tokens

RateLimiterInit ==
    /\ burst \in 1..MaxBurst
    /\ min_interval \in 1..MaxInterval
    /\ tokens = burst * min_interval
    /\ last_update = clock
    /\ rl_lock = NoThread
    /\ pc = [t \in Threads |-> "idle"]
    /\ wake = [t \in Threads |-> 0]
    /\ calls = 0
    /\ returned = 0
    /\ first_call = 0
    /\ last_return = 0

RateLimiterIdle ==
    /\ burst = 1
    /\ min_interval = 1
    /\ tokens = 1
    /\ last_update = 0
    /\ rl_lock = NoThread
    /\ pc = [t \in Threads |-> "idle"]
    /\ wake = [t \in Threads |-> 0]
    /\ calls = 0
    /\ returned = 0
    /\ first_call = 0
    /\ last_return = 0

RefillUncapped(tok, time_passed) == tok + time_passed

Refill(tok, time_passed) == Min(burst * min_interval, tok + time_passed)

\* with self._lock: now = time.time(); refill; self.last_update = now
WaitEnter(t) ==
    /\ pc[t] = "idle"
    /\ rl_lock = NoThread
    /\ calls < MaxCalls
    /\ rl_lock' = t
    /\ tokens' = Refill(tokens, clock - last_update)
    /\ last_update' = clock
    /\ pc' = [pc EXCEPT ![t] = "locked"]
    /\ calls' = calls + 1
    /\ first_call' = IF calls = 0 THEN clock ELSE first_call
    /\ UNCHANGED <<clock, burst, min_interval, wake, returned, last_return>>
    /\ UNCHANGED <<arlVars, antVars, pmVars, drlVars, owVars, poolVars, pgVars>>

\* if self.tokens >= 1: self.tokens -= 1; return
WaitTake(t) ==
    /\ pc[t] = "locked"
    /\ rl_lock = t
    /\ tokens >= min_interval
    /\ tokens' = tokens - min_interval
    /\ rl_lock' = NoThread
    /\ pc' = [pc EXCEPT ![t] = "idle"]
    /\ returned' = returned + 1
    /\ last_return' = clock
    /\ UNCHANGED <<clock, burst, min_interval, last_update, wake, calls, first_call>>
    /\ UNCHANGED <<arlVars, antVars, pmVars, drlVars, owVars, poolVars, pgVars>>

\* wait_time = (1 - self.tokens) * self.min_interval; self.tokens = 0;
\* the lock is released and time.sleep(wait_time) starts
WaitSleep(t) ==
    /\ pc[t] = "locked"
    /\ rl_lock = t
    /\ tokens < min_interval
    /\ wake' = [wake EXCEPT ![t] = clock + (min_interval - tokens)]
    /\ tokens' = 0
    /\ rl_lock' = NoThread
    /\ pc' = [pc EXCEPT ![t] = "sleeping"]
    /\ UNCHANGED <<clock, burst, min_interval, last_update, calls, returned,
                   first_call, last_return>>
    /\ UNCHANGED <<arlVars, antVars, pmVars, drlVars, owVars, poolVars, pgVars>>

\* time.sleep(wait_time) is over and wait() returns
WaitReturn(t) ==
    /\ pc[t] = "sleeping"
    /\ clock >= wake[t]
    /\ pc' = [pc EXCEPT ![t] = "idle"]
    /\ returned' = returned + 1
    /\ last_return' = clock
    /\ UNCHANGED <<clock, burst, min_interval, tokens, last_update, rl_lock, wake,
                   calls, first_call>>
    /\ UNCHANGED <<arlVars, antVars, pmVars, drlVars, owVars, poolVars, pgVars>>

\* get_next() returning None; no get_next() as the latest step
NoProxy == <<>>
NoGet == [called |-> FALSE, value |-> NoProxy]

\* no wait of a DomainRateLimiter completed in the latest step
NoWait == [host |-> <<>>, min_interval |-> 0]

\* the wall clock advances
Tick ==
    /\ clock < MaxTime
    /\ clock' = clock + 1
    /\ last_get' = NoGet
    /\ paced' = NoWait
    /\ UNCHANGED <<proxies, stats, rotation_strategy, current_index, records, last_failure>>
    /\ UNCHANGED <<default_rate, domain_rates, limiters, d_lock, d_pc, d_host, d_wake, d_fresh>>
    /\ UNCHANGED <<rlVars, arlVars, antVars>>
    /\ UNCHANGED <<owVars, poolVars, pgVars>>

\* ------------------------------------------------------------------------
\* AdaptiveRateLimiter
\* ------------------------------------------------------------------------
\* Rates are exact rationals <<num, den>> with den > 0.
RLeq(a, b) == a[1] * b[2] <= b[1] * a[2]
RMin(a, b) == IF RLeq(a, b) THEN a ELSE b
RMax(a, b) == IF RLeq(b, a) THEN a ELSE b
RTimes(a, num, den) == <<a[1] * num, a[2] * den>>
RInv(a) == <<a[2], a[1]>>

Rates == {<<1, 10>>, <<1, 1>>, <<10, 1>>, <<20, 1>>}

\* RateLimiter(requests_per_second) with the default burst of 1
NewRateLimiter(rate) ==
    [min_interval |-> RInv(rate), burst |-> 1, tokens |-> 1, last_update |-> clock]

\* no wait() has returned yet; prev and last are the times of the latest two
\* returns, fed_between whether a record_* call came between them, fed
\* whether one came after the latest, rate the current_rate at the latest
NoWaits == [prev |-> -1, last |-> -1, fed |-> FALSE, fed_between |-> FALSE, rate |-> <<1, 1>>]

AdaptiveInit ==
    /\ min_rate \in Rates
    /\ max_rate \in Rates
    /\ RLeq(min_rate, max_rate)
    /\ current_rate \in Rates
    /\ limiter = NewRateLimiter(current_rate)
    /\ events = 0
    /\ a_waits = NoWaits

AdaptiveIdle ==
    /\ min_rate = <<1, 10>>
    /\ max_rate = <<10, 1>>
    /\ current_rate = <<1, 1>>
    /\ limiter = [min_interval |-> <<1, 1>>, burst |-> 1, tokens |-> 1, last_update |-> 0]
    /\ events = 0
    /\ a_waits = NoWaits

SuccessRate(rate) == RMin(max_rate, RTimes(rate, 11, 10))
RateLimitRate(rate) == RMax(min_rate, RTimes(rate, 5, 10))
ErrorRate(rate) == RMax(min_rate, RTimes(rate, 9, 10))

Adjust(rate) ==
    /\ events < MaxEvents
    /\ events' = events + 1
    /\ current_rate' = rate
    /\ limiter' = NewRateLimiter(rate)
    /\ a_waits' = [a_waits EXCEPT !.fed = TRUE]
    /\ UNCHANGED <<clock, min_rate, max_rate>>
    /\ UNCHANGED <<rlVars, antVars, pmVars, drlVars, owVars, poolVars, pgVars>>

record_success == Adjust(SuccessRate(current_rate))

record_rate_limit == Adjust(RateLimitRate(current_rate))

record_error == Adjust(ErrorRate(current_rate))

\* ------------------------------------------------------------------------
\* BaseAnt: scrape() and _fetch_with_retry()
\* ------------------------------------------------------------------------
\* A netloc is its sequence of labels; "www.a.com" is <<"www", "a", "com">>.
DomainA == <<"a", "com">>
NetlocA == <<"www", "a", "com">>
NetlocB == <<"b", "org">>
Netlocs == {NetlocA, NetlocB}
allowed_domains == <<DomainA>>

\* random.uniform(delay_min, delay_max) of _apply_rate_limit, in ticks
delay_min == 1 * TicksPerSecond
delay_max == 3 * TicksPerSecond
RateLimitDelays == {delay_min, delay_max}

\* A Retry-After header: absent, a number of seconds, or an HTTP date.
NoHeader == [present |-> FALSE, numeric |-> FALSE, seconds |-> 0]
DateHeader == [present |-> TRUE, numeric |-> FALSE, seconds |-> 0]
SecondsHeader(d) == [present |-> TRUE, numeric |-> TRUE, seconds |-> d]
RetryAfterSeconds == {-1, 0, 2}
RetryAfterHeaders == {NoHeader, DateHeader} \cup {SecondsHeader(d) : d \in RetryAfterSeconds}

\* Bodies: whether the first 2000 characters, lowercased, hold a block indicator.
Bodies == {"page", "captcha"}
BlockBodies == {"captcha"}

Reply(status, header, body) ==
    [kind |-> "response", status |-> status, retry_after |-> header, body |-> body]
RequestException == [kind |-> "RequestException", status |-> 0, retry_after |-> NoHeader, body |-> "page"]
NoResponse == [kind |-> "None", status |-> 0, retry_after |-> NoHeader, body |-> "page"]

OkReplies == {Reply(200, NoHeader, b) : b \in Bodies}
ServerErrorReplies == {Reply(503, NoHeader, "page")}
ThrottledReplies == {Reply(429, h, "page") : h \in RetryAfterHeaders}
OtherReplies == {Reply(404, NoHeader, b) : b \in Bodies} \cup {Reply(403, NoHeader, "page")}
Latencies == {0, 1}

NoResult == [kind |-> "none", success |-> FALSE, error |-> "", status_code |-> 0, duration |-> 0]
Raised(exc) == [kind |-> "exception", success |-> FALSE, error |-> exc, status_code |-> 0, duration |-> 0]
ScrapeResult(success, error, status_code, duration) ==
    [kind |-> "ScrapeResult", success |-> success, error |-> error,
     status_code |-> status_code, duration |-> duration]

NoMetrics ==
    [requests_made |-> 0, requests_succeeded |-> 0, requests_failed |-> 0,
     total_duration |-> 0, retries |-> 0]

record_request(m, success, duration) ==
    [m EXCEPT !.requests_made = @ + 1,
              !.total_duration = @ + duration,
              !.requests_succeeded = IF success THEN @ + 1 ELSE @,
              !.requests_failed = IF success THEN @ ELSE @ + 1]

AntConfigInit ==
    /\ retry_count \in 1..MaxRetryCount
    /\ retry_delay \in {TicksPerSecond, TicksPerSecond + 1}
    /\ retry_backoff \in {1, 2}

NoRequestYet == [n \in Netlocs |-> -1]

AntStart ==
    /\ metrics = NoMetrics
    /\ f_pc = "start"
    /\ url = NetlocA
    /\ start_time = 0
    /\ attempt = 0
    /\ delay = 0
    /\ response = NoResponse
    /\ result = NoResult
    /\ outcomes = <<>>
    /\ send_times = <<>>
    /\ sleeps = <<>>
    /\ rate_limit_waits = <<>>
    /\ feedback = <<>>

\* A new ant, or one whose only request so far went to NetlocA at time 0 and
\* was answered 403 at once (which leaves the metrics untouched).
AntInit ==
    /\ AntConfigInit
    /\ last_request_time \in {NoRequestYet, [NoRequestYet EXCEPT ![NetlocA] = 0]}
    /\ AntStart

AntIdle ==
    /\ retry_count = 3
    /\ retry_delay = 5 * TicksPerSecond
    /\ retry_backoff = 2
    /\ last_request_time = NoRequestYet
    /\ AntStart

\* domain.endswith('.' + allowed): allowed is a proper suffix of the labels
EndsWithDomain(netloc, allowed) ==
    /\ Len(netloc) > Len(allowed)
    /\ SubSeq(netloc, Len(netloc) - Len(allowed) + 1, Len(netloc)) = allowed

_validate_url(netloc) ==
    \/ allowed_domains = <<>>
    \/ \E i \in 1..Len(allowed_domains) :
          \/ netloc = allowed_domains[i]
          \/ EndsWithDomain(netloc, allowed_domains[i])

\* time slept by _apply_rate_limit for a drawn delay d
RateLimitSleep(netloc, d) ==
    IF last_request_time[netloc] >= 0 /\ clock - last_request_time[netloc] < d
    THEN d - (clock - last_request_time[netloc])
    ELSE 0

_is_blocked(r) ==
    \/ r.status \in {403, 429, 503}
    \/ r.body \in BlockBodies

\* int(x) of a number of ticks x, in seconds
IntSeconds(x) == x \div TicksPerSecond

\* int(response.headers.get('Retry-After', delay)), in seconds
RetryAfterIgnored(r, d) == IntSeconds(d)

RetryAfter(r, d) ==
    IF r.retry_after.present THEN r.retry_after.seconds ELSE IntSeconds(d)

\* int() raises ValueError on a header that is not a number
RetryAfterRaises(r) == r.retry_after.present /\ ~r.retry_after.numeric

SameDelay(d) == d

\* delay *= self.config.retry_backoff
NextDelay(d) == d * retry_backoff

\* scrape(url) for a url that _validate_url rejects
ScrapeRejected(n) ==
    /\ f_pc = "start"
    /\ f_pc' = "done"
    /\ ~_validate_url(n)
    /\ url' = n
    /\ start_time' = clock
    /\ result' = ScrapeResult(FALSE, "URL not allowed", 0, 0)
    /\ response' = NoResponse
    /\ outcomes' = <<>>
    /\ send_times' = <<>>
    /\ sleeps' = <<>>
    /\ rate_limit_waits' = <<>>
    /\ feedback' = <<>>
    /\ attempt' = 0
    /\ delay' = 0
    /\ UNCHANGED <<clock, retry_count, retry_delay, retry_backoff, last_request_time,
                   metrics>>
    /\ UNCHANGED <<rlVars, arlVars, pmVars, drlVars, owVars, poolVars, pgVars>>

\* scrape(url) up to the retry loop: _validate_url, _apply_rate_limit,
\* delay = self.config.retry_delay
ScrapeBegin(n, d) ==
    /\ f_pc = "start"
    /\ _validate_url(n)
    /\ url' = n
    /\ start_time' = clock
    /\ clock' = clock + RateLimitSleep(n, d)
    /\ last_request_time' = [last_request_time EXCEPT ![n] = clock']
    /\ result' = NoResult
    /\ response' = NoResponse
    /\ outcomes' = <<>>
    /\ send_times' = <<>>
    /\ sleeps' = <<>>
    /\ rate_limit_waits' = <<clock'>>
    /\ feedback' = <<>>
    /\ attempt' = 0
    /\ delay' = retry_delay
    /\ f_pc' = "loop"
    /\ UNCHANGED <<retry_count, retry_delay, retry_backoff, metrics>>
    /\ UNCHANGED <<rlVars, arlVars, pmVars, drlVars, owVars, poolVars, pgVars>>

\* one self._fetch(url): the request is sent now and answered lat ticks later
Sent(o) ==
    /\ f_pc = "loop"
    /\ attempt < retry_count
    /\ send_times' = Append(send_times, clock)
    /\ outcomes' = Append(outcomes, o)

\* the attempt's answer is returned to scrape()
Returned(o, lat) ==
    /\ response' = o
    /\ f_pc' = "fetched"
    /\ clock' = clock + lat
    /\ UNCHANGED <<retry_count, retry_delay, retry_backoff, last_request_time, metrics,
                   url, start_time, attempt, delay, result, sleeps,
                   rate_limit_waits, feedback>>
    /\ UNCHANGED <<rlVars, arlVars, pmVars, drlVars, owVars, poolVars, pgVars>>

\* the attempt failed: retries += 1, time.sleep(slept), next iteration
Retried(lat, slept, next_delay) ==
    /\ metrics' = [metrics EXCEPT !.retries = @ + 1]
    /\ clock' = clock + lat + slept
    /\ sleeps' = Append(sleeps, slept)
    /\ delay' = next_delay
    /\ attempt' = attempt + 1
    /\ UNCHANGED <<retry_count, retry_delay, retry_backoff, last_request_time,
                   f_pc, url, start_time, response, result, rate_limit_waits,
                   feedback>>
    /\ UNCHANGED <<rlVars, arlVars, pmVars, drlVars, owVars, poolVars, pgVars>>

\* if response.status_code == 200: return response
FetchOk(o, lat) ==
    /\ Sent(o)
    /\ o.status = 200
    /\ Returned(o, lat)

\* if response.status_code >= 500: sleep(delay); delay *= retry_backoff
FetchServerError(o, lat) ==
    /\ Sent(o)
    /\ o.status >= 500
    /\ Retried(lat, delay, NextDelay(delay))

\* if response.status_code == 429: sleep(retry_after)
FetchThrottled(o, lat) ==
    /\ Sent(o)
    /\ o.status = 429
    /\ ~RetryAfterRaises(o)
    /\ RetryAfter(o, delay) >= 0
    /\ Retried(lat, RetryAfter(o, delay) * TicksPerSecond, delay)

\* a 429 whose Retry-After makes int() or time.sleep() raise ValueError,
\* which neither _fetch_with_retry nor scrape() catches
FetchThrottledRaises(o, lat) ==
    /\ Sent(o)
    /\ o.status = 429
    /\ RetryAfterRaises(o) \/ RetryAfter(o, delay) < 0
    /\ metrics' = IF RetryAfterRaises(o) THEN metrics
                  ELSE [metrics EXCEPT !.retries = @ + 1]
    /\ clock' = clock + lat
    /\ result' = Raised("ValueError")
    /\ f_pc' = "done"
    /\ UNCHANGED <<retry_count, retry_delay, retry_backoff, last_request_time,
                   url, start_time, attempt, delay, response, sleeps,
                   rate_limit_waits, feedback>>
    /\ UNCHANGED <<rlVars, arlVars, pmVars, drlVars, owVars, poolVars, pgVars>>

\* other status codes: return response
FetchOther(o, lat) ==
    /\ Sent(o)
    /\ o.status /= 200 /\ o.status < 500 /\ o.status /= 429
    /\ Returned(o, lat)

\* except requests.RequestException: sleep(delay); delay *= retry_backoff
FetchException(lat) ==
    /\ Sent(RequestException)
    /\ Retried(lat, delay, NextDelay(delay))

\* the loop ends: record_request(False, 0), return None, and scrape()
\* returns "Failed to fetch after retries"
FetchExhausted ==
    /\ f_pc = "loop"
    /\ attempt >= retry_count
    /\ metrics' = record_request(metrics, FALSE, 0)
    /\ response' = NoResponse
    /\ result' = ScrapeResult(FALSE, "Failed to fetch after retries", 0, clock - start_time)
    /\ f_pc' = "done"
    /\ UNCHANGED <<clock, retry_count, retry_delay, retry_backoff, last_request_time,
                   url, start_time, attempt, delay, outcomes, send_times, sleeps,
                   rate_limit_waits, feedback>>
    /\ UNCHANGED <<rlVars, arlVars, pmVars, drlVars, owVars, poolVars, pgVars>>

\* what scrape() does with a response
Finish(res, m) ==
    /\ f_pc = "fetched"
    /\ result' = res
    /\ metrics' = m
    /\ f_pc' = "done"
    /\ UNCHANGED <<clock, retry_count, retry_delay, retry_backoff, last_request_time,
                   url, start_time, attempt, delay, response, outcomes, send_times,
                   sleeps, rate_limit_waits, feedback>>
    /\ UNCHANGED <<rlVars, arlVars, pmVars, drlVars, owVars, poolVars, pgVars>>

\* if self._is_blocked(response): return "Blocked by website"
ScrapeBlocked ==
    /\ f_pc = "fetched"
    /\ _is_blocked(response)
    /\ Finish(ScrapeResult(FALSE, "Blocked by website", response.status,
                           clock - start_time), metrics)

\* self.extract(soup) raises
ScrapeExtractFails ==
    /\ f_pc = "fetched"
    /\ ~_is_blocked(response)
    /\ Finish(ScrapeResult(FALSE, "Extraction failed", response.status,
                           clock - start_time), metrics)

\* self.extract(soup) returns the data
ScrapeSucceeds ==
    /\ f_pc = "fetched"
    /\ ~_is_blocked(response)
    /\ Finish(ScrapeResult(TRUE, "", response.status, clock - start_time),
              record_request(metrics, TRUE, clock - start_time))

\* ------------------------------------------------------------------------
\* ProxyManager
\* ------------------------------------------------------------------------
\* A string is its sequence of parts: "http://h1:80" is <<"http", "://", "h1:80">>.
\* A proxy string given to add_proxy is [protocol://][user:pass@]host:port; it
\* is kept as its three parts, "" for a missing one.
ProxyStrings ==
    {[protocol |-> "", auth |-> "", host |-> "h1:80"],
     [protocol |-> "", auth |-> "u:p", host |-> "h2:80"]}

\* Proxy.from_string
from_string(s) ==
    LET protocol == IF s.protocol /= "" THEN s.protocol ELSE "http"
    IN  [url |-> <<protocol, "://", s.host>>,
         auth |-> s.auth,
         protocol |-> protocol]

\* self.url.replace('http://', '').replace('https://', '')
StripHttp(u) ==
    IF Len(u) >= 2 /\ u[1] \in {"http", "https"} /\ u[2] = "://"
    THEN SubSeq(u, 3, Len(u))
    ELSE u

\* Proxy.full_url
full_url(p) ==
    IF p.auth /= ""
    THEN <<p.protocol, "://", p.auth, "@">> \o StripHttp(p.url)
    ELSE p.url

ProxyKeys ==
    {from_string(s).url : s \in ProxyStrings}
        \cup {full_url(from_string(s)) : s \in ProxyStrings}

\* ProxyStats(); last_used, which get_next() writes and nothing reads, is left out
NewProxyStats ==
    [successes |-> 0, failures |-> 0, total_time |-> 0, blocked_until |-> 0]

\* ProxyStats.success_rate, as the rational <<num, den>>
success_rate(st) ==
    IF st.successes + st.failures > 0
    THEN <<st.successes, st.successes + st.failures>>
    ELSE <<1, 2>>

NoFailure == [at |-> -1, seconds |-> 0]

Strategies == {"round_robin", "random", "best", "first"}

ProxyManagerInit ==
    /\ proxies = <<>>
    /\ stats = [k \in ProxyKeys |-> NewProxyStats]
    /\ rotation_strategy \in Strategies
    /\ current_index = 0
    /\ records = 0
    /\ last_failure = [k \in ProxyKeys |-> NoFailure]
    /\ last_get = NoGet

ProxyManagerIdle ==
    /\ proxies = <<>>
    /\ stats = [k \in ProxyKeys |-> NewProxyStats]
    /\ rotation_strategy = "round_robin"
    /\ current_index = 0
    /\ records = 0
    /\ last_failure = [k \in ProxyKeys |-> NoFailure]
    /\ last_get = NoGet

add_proxy(s) ==
    /\ Len(proxies) < MaxPool
    /\ proxies' = Append(proxies, from_string(s))
    /\ UNCHANGED <<clock, stats, rotation_strategy, current_index, records, last_failure>>
    /\ last_get' = NoGet
    /\ UNCHANGED <<rlVars, arlVars, antVars, drlVars, owVars, poolVars, pgVars>>

remove_proxy(u) ==
    /\ proxies' = SelectSeq(proxies, LAMBDA p : p.url /= u)
    /\ UNCHANGED <<clock, stats, rotation_strategy, current_index, records, last_failure>>
    /\ last_get' = NoGet
    /\ UNCHANGED <<rlVars, arlVars, antVars, drlVars, owVars, poolVars, pgVars>>

IsAvailableInclusive(p) == stats[p.url].blocked_until <= clock

FirstAvailable(available) == available[1]

\* self.stats[p.url].blocked_until < now
IsAvailable(p) == stats[p.url].blocked_until < clock

_get_available_proxies == SelectSeq(proxies, IsAvailable)

\* max(available, key=success_rate): the first proxy of maximal rate
_best_performing(available) ==
    LET best == CHOOSE i \in 1..Len(available) :
                  /\ \A j \in 1..Len(available) :
                        RLeq(success_rate(stats[available[j].url]),
                             success_rate(stats[available[i].url]))
                  /\ \A j \in 1..(i - 1) :
                        ~RLeq(success_rate(stats[available[i].url]),
                              success_rate(stats[available[j].url]))
    IN  available[best]

\* get_next() returns value
GotNext(value) ==
    /\ last_get' = [called |-> TRUE, value |-> value]
    /\ UNCHANGED <<clock, proxies, stats, rotation_strategy, records, last_failure>>
    /\ UNCHANGED <<rlVars, arlVars, antVars, drlVars, owVars, poolVars, pgVars>>

\* return proxy.full_url
Selected(p) == GotNext(full_url(p))

\* the pool is empty or no proxy is available: return None
GetNextNone ==
    /\ proxies = <<>> \/ _get_available_proxies = <<>>
    /\ UNCHANGED current_index
    /\ GotNext(NoProxy)

GetNextRoundRobin ==
    /\ _get_available_proxies /= <<>>
    /\ rotation_strategy = "round_robin"
    /\ current_index' = (current_index + 1) % Len(_get_available_proxies)
    /\ Selected(_get_available_proxies[current_index' + 1])

GetNextRandom ==
    /\ _get_available_proxies /= <<>>
    /\ rotation_strategy = "random"
    /\ UNCHANGED current_index
    /\ \E i \in 1..Len(_get_available_proxies) : Selected(_get_available_proxies[i])

GetNextBest ==
    /\ _get_available_proxies /= <<>>
    /\ rotation_strategy = "best"
    /\ UNCHANGED current_index
    /\ Selected(_best_performing(_get_available_proxies))

\* any other strategy: proxy = available[0]
GetNextFirst ==
    /\ _get_available_proxies /= <<>>
    /\ rotation_strategy \notin {"round_robin", "random", "best"}
    /\ UNCHANGED current_index
    /\ Selected(_get_available_proxies[1])

record_proxy_success(k, response_time) ==
    /\ records < MaxRecords
    /\ records' = records + 1
    /\ stats' = [stats EXCEPT ![k].successes = @ + 1,
                              ![k].total_time = @ + response_time]
    /\ UNCHANGED <<clock, proxies, rotation_strategy, current_index, last_failure>>
    /\ last_get' = NoGet
    /\ UNCHANGED <<rlVars, arlVars, antVars, drlVars, owVars, poolVars, pgVars>>

record_failure(k, block_seconds) ==
    /\ records < MaxRecords
    /\ records' = records + 1
    /\ stats' = [stats EXCEPT ![k].failures = @ + 1,
                              ![k].blocked_until =
                                  IF block_seconds > 0 THEN clock + block_seconds ELSE @]
    /\ last_failure' = [last_failure EXCEPT ![k] =
                            IF block_seconds > 0
                            THEN [at |-> clock, seconds |-> block_seconds]
                            ELSE NoFailure]
    /\ UNCHANGED <<clock, proxies, rotation_strategy, current_index>>
    /\ last_get' = NoGet
    /\ UNCHANGED <<rlVars, arlVars, antVars, drlVars, owVars, poolVars, pgVars>>

\* ------------------------------------------------------------------------
\* DomainRateLimiter
\* ------------------------------------------------------------------------
\* A rate is a rational <<num, den>> of requests per tick.  Each per-domain
\* limiter is a RateLimiter of burst 1; its tokens are kept scaled by
\* min_interval as above.  The locked part of RateLimiter.wait() has no
\* blocking call, so it is one step here; the sleep is outside of it.
DomainRates == {<<1, 1>>, <<1, 2>>}

\* the rates a caller may hand to set_rate, 0 included
ConfigRates == {<<0, 1>>, <<1, 1>>, <<1, 2>>}

\* the threads that call wait(url) / wait_for_domain(domain)
Callers == {1, 2}
Configurers == {1}

NoRate == <<>>
NoLimiter == [min_interval |-> 0, tokens |-> 0, last_update |-> 0]

DomainUrls == {[scheme |-> "https", netloc |-> n, path |-> "/"] : n \in Netlocs}

\* urlparse(url).netloc
_get_domain(u) == u.netloc

\* RateLimiter(rate): min_interval = 1.0 / rate, tokens = burst = 1
DomainLimiter(rate) ==
    [min_interval |-> rate[2] \div rate[1],
     tokens |-> rate[2] \div rate[1],
     last_update |-> clock]

DomainInit ==
    /\ default_rate \in DomainRates
    /\ domain_rates = [h \in Netlocs |-> NoRate]
    /\ limiters = [h \in Netlocs |-> NoLimiter]
    /\ d_lock = NoThread
    /\ d_pc = [t \in Callers |-> "idle"]
    /\ d_host = [t \in Callers |-> NetlocA]
    /\ d_wake = [t \in Callers |-> 0]
    /\ d_fresh = [t \in Callers |-> TRUE]
    /\ paced = NoWait

DomainIdle ==
    /\ default_rate = <<1, 1>>
    /\ domain_rates = [h \in Netlocs |-> NoRate]
    /\ limiters = [h \in Netlocs |-> NoLimiter]
    /\ d_lock = NoThread
    /\ d_pc = [t \in Callers |-> "idle"]
    /\ d_host = [t \in Callers |-> NetlocA]
    /\ d_wake = [t \in Callers |-> 0]
    /\ d_fresh = [t \in Callers |-> TRUE]
    /\ paced = NoWait

\* self.domain_rates[domain] = requests_per_second
set_rate(h, rate) ==
    /\ domain_rates' = [domain_rates EXCEPT ![h] = rate]
    /\ d_fresh' = [t \in Callers |->
                      IF d_pc[t] /= "idle" /\ d_host[t] = h THEN FALSE ELSE d_fresh[t]]
    /\ paced' = NoWait
    /\ UNCHANGED <<clock, default_rate, limiters, d_lock, d_pc, d_host, d_wake>>
    /\ UNCHANGED <<rlVars, arlVars, antVars, pmVars, owVars, poolVars, pgVars>>

\* with self._lock: entered for domain h
DomainLock(t, h) ==
    /\ d_pc[t] = "idle"
    /\ d_lock = NoThread
    /\ d_lock' = t
    /\ d_pc' = [d_pc EXCEPT ![t] = "lookup"]
    /\ d_host' = [d_host EXCEPT ![t] = h]
    /\ d_fresh' = [d_fresh EXCEPT ![t] = TRUE]
    /\ paced' = NoWait
    /\ UNCHANGED <<clock, default_rate, domain_rates, limiters, d_wake>>
    /\ UNCHANGED <<rlVars, arlVars, antVars, pmVars, owVars, poolVars, pgVars>>

\* wait(url): domain = self._get_domain(url); with self._lock:
DomainWait(t, u) == DomainLock(t, _get_domain(u))

\* wait_for_domain(domain): with self._lock:
wait_for_domain(t, h) == DomainLock(t, h)

\* self.domain_rates.get(domain, self.default_rate)
RateFor(h) == IF domain_rates[h] /= NoRate THEN domain_rates[h] ELSE default_rate

LimiterAlwaysNew(h) == [limiters EXCEPT ![h] = DomainLimiter(RateFor(h))]

\* _get_limiter(domain)
_get_limiter(h) ==
    IF limiters[h] = NoLimiter
    THEN [limiters EXCEPT ![h] = DomainLimiter(RateFor(h))]
    ELSE limiters

MapLockKept(t) == t

\* the holder of self._lock once the with block is left
MapLockReleased(t) == NoThread

\* limiter = self._get_limiter(domain), and the with block is left
DomainLookup(t) ==
    /\ d_pc[t] = "lookup"
    /\ d_lock = t
    /\ limiters' = _get_limiter(d_host[t])
    /\ d_lock' = MapLockReleased(t)
    /\ d_pc' = [d_pc EXCEPT ![t] = "got"]
    /\ paced' = NoWait
    /\ UNCHANGED <<clock, default_rate, domain_rates, d_host, d_wake, d_fresh>>
    /\ UNCHANGED <<rlVars, arlVars, antVars, pmVars, owVars, poolVars, pgVars>>

\* RateLimiter(rate): 1.0 / requests_per_second raises ZeroDivisionError
RateLimiterRaises(rate) == rate[1] = 0

\* limiter = self._get_limiter(domain) for a rate RateLimiter() accepts
DomainLookupCreates(t) ==
    /\ limiters[d_host[t]] /= NoLimiter \/ ~RateLimiterRaises(RateFor(d_host[t]))
    /\ DomainLookup(t)

\* limiter = self._get_limiter(domain) where RateLimiter(rate) raises: the
\* with block is left, nothing is stored, and wait() raises ZeroDivisionError
DomainLookupRaises(t) ==
    /\ d_pc[t] = "lookup"
    /\ d_lock = t
    /\ limiters[d_host[t]] = NoLimiter
    /\ RateLimiterRaises(RateFor(d_host[t]))
    /\ d_lock' = NoThread
    /\ d_pc' = [d_pc EXCEPT ![t] = "raised"]
    /\ paced' = NoWait
    /\ UNCHANGED <<clock, default_rate, domain_rates, limiters, d_host, d_wake, d_fresh>>
    /\ UNCHANGED <<rlVars, arlVars, antVars, pmVars, owVars, poolVars, pgVars>>

\* the limiter's tokens after the refill of RateLimiter.wait()
DomainRefill(l) == Min(l.min_interval, l.tokens + (clock - l.last_update))

\* thread t's wait, which limiter l paced, has completed
Paced(t, l) ==
    IF d_fresh[t] THEN [host |-> d_host[t], min_interval |-> l.min_interval] ELSE NoWait

\* limiter.wait() finds a token and returns
DomainTake(t) ==
    LET l == limiters[d_host[t]]
    IN  /\ d_pc[t] = "got"
        /\ DomainRefill(l) >= l.min_interval
        /\ limiters' = [limiters EXCEPT ![d_host[t]] =
                           [l EXCEPT !.tokens = DomainRefill(l) - l.min_interval,
                                     !.last_update = clock]]
        /\ d_pc' = [d_pc EXCEPT ![t] = "idle"]
        /\ d_host' = [d_host EXCEPT ![t] = NetlocA]
        /\ d_fresh' = [d_fresh EXCEPT ![t] = TRUE]
        /\ paced' = Paced(t, l)
        /\ UNCHANGED <<clock, default_rate, domain_rates, d_lock, d_wake>>
        /\ UNCHANGED <<rlVars, arlVars, antVars, pmVars, owVars, poolVars, pgVars>>

\* limiter.wait() finds no token, leaves the limiter's lock and sleeps
DomainSleep(t) ==
    LET l == limiters[d_host[t]]
    IN  /\ d_pc[t] = "got"
        /\ DomainRefill(l) < l.min_interval
        /\ limiters' = [limiters EXCEPT ![d_host[t]] =
                           [l EXCEPT !.tokens = 0, !.last_update = clock]]
        /\ d_wake' = [d_wake EXCEPT ![t] = clock + (l.min_interval - DomainRefill(l))]
        /\ d_pc' = [d_pc EXCEPT ![t] = "sleeping"]
        /\ paced' = NoWait
        /\ UNCHANGED <<clock, default_rate, domain_rates, d_lock, d_host, d_fresh>>
        /\ UNCHANGED <<rlVars, arlVars, antVars, pmVars, owVars, poolVars, pgVars>>

\* time.sleep(wait_time) is over and the call returns
DomainReturn(t) ==
    /\ d_pc[t] = "sleeping"
    /\ clock >= d_wake[t]
    /\ d_pc' = [d_pc EXCEPT ![t] = "idle"]
    /\ d_host' = [d_host EXCEPT ![t] = NetlocA]
    /\ d_wake' = [d_wake EXCEPT ![t] = 0]
    /\ d_fresh' = [d_fresh EXCEPT ![t] = TRUE]
    /\ paced' = Paced(t, limiters[d_host[t]])
    /\ UNCHANGED <<clock, default_rate, domain_rates, limiters, d_lock>>
    /\ UNCHANGED <<rlVars, arlVars, antVars, pmVars, owVars, poolVars, pgVars>>

\* ------------------------------------------------------------------------
\* Output writers
\* ------------------------------------------------------------------------
\* An item is a dict: the sequence of its <<key, value>> pairs in insertion
\* order.  A file is the sequence of the string parts written to it since
\* it was last opened with mode 'w'; dest is what the file at filepath holds
\* once what was written is flushed.
RecA == <<<<"a", 1>>>>
RecAB == <<<<"a", 2>>, <<"b", 3>>>>
RecABC == <<<<"a", 4>>, <<"b", 5>>, <<"c", 6>>>>
Items == {RecA, RecAB, RecABC}
NoItem == <<>>

Formats == {"jsonl", "csv", "json"}

\* MultiFormatWriter(base_path, formats=['jsonl', 'csv', 'json'])
formats == <<"jsonl", "csv", "json">>

\* list(item.keys())
Keys(item) == [i \in 1..Len(item) |-> item[i][1]]

Range(s) == {s[i] : i \in 1..Len(s)}

\* str(item.get(key, restval)) with restval = ''
Cell(item, key) ==
    IF \E i \in 1..Len(item) : item[i][1] = key
    THEN ToString(item[CHOOSE i \in 1..Len(item) : item[i][1] = key][2])
    ELSE ""

RECURSIVE Join(_, _)
Join(chunks, sep) ==
    IF chunks = <<>> THEN <<>>
    ELSE IF Len(chunks) = 1 THEN chunks[1]
    ELSE chunks[1] \o sep \o Join(Tail(chunks), sep)

\* json.dumps(item, default=str)
json_dumps(item) ==
    <<"{">> \o Join([i \in 1..Len(item) |->
                        <<"\"", item[i][1], "\"", ": ", ToString(item[i][2])>>],
                    <<", ">>)
            \o <<"}">>

JsonLineUnterminated(item) == json_dumps(item)

\* json.dumps(item, default=str) + '\n'
JsonLine(item) == json_dumps(item) \o <<"\n">>

\* csv.DictWriter: one row of cells, ',' between them and '\r\n' after them
CsvLine(cells) == Join([i \in 1..Len(cells) |-> <<cells[i]>>], <<",">>) \o <<"\r\n">>

\* DictWriter.writeheader()
writeheader(fieldnames) == CsvLine(fieldnames)

\* the cells DictWriter.writerow(item) writes
RowCells(fieldnames, item) == [i \in 1..Len(fieldnames) |-> Cell(item, fieldnames[i])]

\* DictWriter.writerow(item) raises ValueError: a key of item is no fieldname
ExtraFields(fieldnames, item) == ~(Range(Keys(item)) \subseteq Range(fieldnames))

\* json.dump(items, file, indent=2, default=str)
IndentedItem(item) ==
    <<"  ", "{", "\n">>
        \o Join([i \in 1..Len(item) |->
                    <<"    ", "\"", item[i][1], "\"", ": ", ToString(item[i][2])>>],
                <<",", "\n">>)
        \o <<"\n", "  ", "}">>

json_dump(items) ==
    IF items = <<>>
    THEN <<"[", "]">>
    ELSE <<"[", "\n">>
             \o Join([i \in 1..Len(items) |-> IndentedItem(items[i])], <<",", "\n">>)
             \o <<"\n", "]">>

\* a writer after __init__; fieldnames, writer (self._writer is not None) and
\* header_written are CsvWriter's, items is JsonArrayWriter's; opens, written
\* and closed are history: how often the file was opened, the items whose
\* write() returned, and whether the writer's latest call was close()
NewWriter ==
    [file |-> FALSE, count |-> 0, dest |-> <<>>, fieldnames |-> <<>>,
     writer |-> FALSE, header_written |-> FALSE, items |-> <<>>,
     opens |-> 0, written |-> <<>>, closed |-> FALSE]

NoFailedWrite == [item |-> NoItem, accepted |-> {}]

NoCall ==
    [op |-> "none", fmt |-> "none", item |-> NoItem, repeat |-> FALSE,
     opened |-> {}, changed |-> {}, raised |-> FALSE, recorded |-> {},
     accepted_before |-> {}, csv |-> "none"]

WriterInit ==
    /\ writers = [f \in Formats |-> NewWriter]
    /\ multi_closed = FALSE
    /\ multi_failed = NoFailedWrite
    /\ mismatch_outcomes = {}
    /\ w_last = NoCall
    /\ w_ops = 0

WriterIdle == WriterInit

\* self._file = open(self.filepath, 'w', encoding='utf-8')
OpenFile(w) == [w EXCEPT !.file = TRUE, !.dest = <<>>, !.opens = @ + 1]

\* OutputWriter.open, JsonLinesWriter.open (compress = False), CsvWriter.open
WriterOpen(w, f) ==
    LET o == [OpenFile(w) EXCEPT !.closed = FALSE]
    IN  IF f = "csv" /\ w.fieldnames /= <<>> THEN [o EXCEPT !.writer = TRUE] ELSE o

\* if self._file is None: self.open()
Opened(w, f) == IF w.file THEN w ELSE WriterOpen(w, f)

Accepted(w, item) ==
    [w EXCEPT !.count = @ + 1, !.written = Append(@, item), !.closed = FALSE]

\* JsonLinesWriter.write
JsonLinesWrite(w, item) ==
    LET o == Opened(w, "jsonl")
    IN  Accepted([o EXCEPT !.dest = @ \o JsonLine(item)], item)

\* CsvWriter.write up to the header: the file is open, the columns are fixed
\* and the header is written if it was not
CsvReady(w, item) ==
    LET o == Opened(w, "csv")
        d == IF o.writer THEN o ELSE [o EXCEPT !.fieldnames = Keys(item), !.writer = TRUE]
    IN  IF d.header_written
        THEN [d EXCEPT !.closed = FALSE]
        ELSE [d EXCEPT !.dest = @ \o writeheader(d.fieldnames),
                       !.header_written = TRUE, !.closed = FALSE]

CsvRaises(w, item) == ExtraFields(CsvReady(w, item).fieldnames, item)

\* CsvWriter.write
CsvWrite(w, item) ==
    LET r == CsvReady(w, item)
    IN  IF CsvRaises(w, item)
        THEN r
        ELSE Accepted([r EXCEPT !.dest = @ \o CsvLine(RowCells(r.fieldnames, item))], item)

\* JsonArrayWriter.write
JsonArrayWrite(w, item) == Accepted([w EXCEPT !.items = Append(@, item)], item)

\* OutputWriter.close
OutputWriterClose(w) == [w EXCEPT !.file = FALSE, !.closed = TRUE]

\* JsonArrayWriter.close
JsonArrayClose(w) ==
    LET o == Opened(w, "json")
    IN  OutputWriterClose([o EXCEPT !.dest = @ \o json_dump(o.items)])

\* writer.write(item) of the writer of format f
Write(w, f, item) ==
    CASE f = "jsonl" -> JsonLinesWrite(w, item)
      [] f = "csv" -> CsvWrite(w, item)
      [] f = "json" -> JsonArrayWrite(w, item)

Raises(w, f, item) == f = "csv" /\ CsvRaises(w, item)

\* writer.close() of the writer of format f
Close(w, f) == IF f = "json" THEN JsonArrayClose(w) ELSE OutputWriterClose(w)

\* for writer in self.writers: writer.write(item)
\* the index of the first writer that raises, Len(fs) + 1 if none does
FirstRaising(ws, fs, item) ==
    IF \E i \in 1..Len(fs) : Raises(ws[fs[i]], fs[i], item)
    THEN CHOOSE i \in 1..Len(fs) :
            /\ Raises(ws[fs[i]], fs[i], item)
            /\ \A j \in 1..(i - 1) : ~Raises(ws[fs[j]], fs[j], item)
    ELSE Len(fs) + 1

\* the formats whose write(item) was called
Attempted(ws, fs, item) ==
    {fs[i] : i \in 1..Min(Len(fs), FirstRaising(ws, fs, item))}

\* the formats whose write(item) returned
Recorded(ws, fs, item) == {fs[i] : i \in 1..(FirstRaising(ws, fs, item) - 1)}

\* how a csv write of item relates to the columns fixed so far
CsvKind(item) ==
    IF ~writers["csv"].writer THEN "first"
    ELSE IF Range(Keys(item)) = Range(writers["csv"].fieldnames) THEN "match"
    ELSE "mismatch"

\* one call on the writers: they become ws, and the call is recorded
WriterCall(op, fmt, item, ws, attempted, recorded, raised) ==
    LET csv == IF op = "write" /\ "csv" \in attempted THEN CsvKind(item) ELSE "none"
    IN  /\ w_ops < MaxWriterOps
        /\ w_ops' = w_ops + 1
        /\ writers' = ws
        /\ multi_closed' = (fmt = "multi" /\ op = "close")
        /\ multi_failed' =
              IF fmt = "multi" /\ op = "write"
              THEN IF raised THEN [item |-> item, accepted |-> recorded]
                   ELSE NoFailedWrite
              ELSE multi_failed
        /\ mismatch_outcomes' =
              IF csv = "mismatch"
              THEN mismatch_outcomes
                       \cup {IF "csv" \in recorded THEN "padded" ELSE "raised"}
              ELSE mismatch_outcomes
        /\ w_last' =
              [op |-> op, fmt |-> fmt, item |-> item,
               repeat |-> IF fmt = "multi" THEN multi_closed ELSE writers[fmt].closed,
               opened |-> {f \in Formats : ws[f].opens > writers[f].opens},
               changed |-> {f \in Formats : ws[f].dest /= writers[f].dest},
               raised |-> raised,
               recorded |-> recorded,
               accepted_before |->
                   IF fmt = "multi" /\ op = "write" /\ multi_failed.item = item
                   THEN multi_failed.accepted ELSE {},
               csv |-> csv]
        /\ UNCHANGED clock
        /\ UNCHANGED <<rlVars, arlVars, antVars, pmVars, drlVars, poolVars, pgVars>>

\* writer.open() on one writer
open(f) ==
    WriterCall("open", f, NoItem, [writers EXCEPT ![f] = WriterOpen(@, f)],
               {}, {}, FALSE)

\* writer.write(item) on one writer
write(f, item) ==
    WriterCall("write", f, item, [writers EXCEPT ![f] = Write(@, f, item)],
               {f}, IF Raises(writers[f], f, item) THEN {} ELSE {f},
               Raises(writers[f], f, item))

\* writer.close() on one writer
close(f) ==
    WriterCall("close", f, NoItem, [writers EXCEPT ![f] = Close(@, f)],
               {}, {}, FALSE)

\* MultiFormatWriter.open
MultiOpen ==
    WriterCall("open", "multi", NoItem,
               [f \in Formats |-> IF f \in Range(formats)
                                  THEN WriterOpen(writers[f], f) ELSE writers[f]],
               {}, {}, FALSE)

\* MultiFormatWriter.write
MultiWrite(item) ==
    WriterCall("write", "multi", item,
               [f \in Formats |-> IF f \in Attempted(writers, formats, item)
                                  THEN Write(writers[f], f, item) ELSE writers[f]],
               Attempted(writers, formats, item),
               Recorded(writers, formats, item),
               FirstRaising(writers, formats, item) <= Len(formats))

\* MultiFormatWriter.close
MultiClose ==
    WriterCall("close", "multi", NoItem,
               [f \in Formats |-> IF f \in Range(formats)
                                  THEN Close(writers[f], f) ELSE writers[f]],
               {}, {}, FALSE)

\* the position of format f in self.writers
SinkIndex(f) == CHOOSE i \in 1..Len(formats) : formats[i] = f

\* MultiFormatWriter.open (also __enter__) where the open() of the k-th
\* writer raises OSError: the writers before it are open, the loop is left
MultiOpenRaises(k) ==
    WriterCall("open", "multi", NoItem,
               [f \in Formats |-> IF f \in Range(formats) /\ SinkIndex(f) < k
                                  THEN WriterOpen(writers[f], f) ELSE writers[f]],
               {}, {}, TRUE)

\* writer.close() raises: self._file.close() before self._file = None, or
\* json.dump after JsonArrayWriter.close made sure the file is open
CloseCanRaise(w, f) == f = "json" \/ w.file

CloseRaised(w, f) == IF f = "json" THEN Opened(w, "json") ELSE w

\* MultiFormatWriter.close (also __exit__) where the close() of the k-th
\* writer raises: the writers before it are closed, the loop is left
MultiCloseRaises(k) ==
    /\ CloseCanRaise(writers[formats[k]], formats[k])
    /\ WriterCall("close", "multi", NoItem,
                  [f \in Formats |->
                      IF f \notin Range(formats) THEN writers[f]
                      ELSE IF SinkIndex(f) < k THEN Close(writers[f], f)
                      ELSE IF SinkIndex(f) = k THEN CloseRaised(writers[f], f)
                      ELSE writers[f]],
                  {}, {}, TRUE)

\* ------------------------------------------------------------------------
\* ProxyManager.add_proxy / remove_proxy called from several threads
\* ------------------------------------------------------------------------
\* Neither method takes self._lock.  list.append is one step; remove_proxy
\* first builds the filtered list from self.proxies and then binds
\* self.proxies to it, and other threads run in between.  (An append to the
\* list that the name was bound to before the assignment is lost like one
\* made between the two steps.)
NoPoolCall == [op |-> "none", proxy |-> [url |-> <<>>, auth |-> "", protocol |-> ""], url |-> <<>>]

\* ProxyManager(proxies=[...]): the pool after construction
InitialPools == {<<>>} \cup {<<from_string(s)>> : s \in ProxyStrings}

\* ProxyManager(proxies, rotation_strategy)
PoolManagerInit ==
    /\ proxies \in InitialPools
    /\ stats = [k \in ProxyKeys |-> NewProxyStats]
    /\ rotation_strategy \in Strategies
    /\ current_index = 0
    /\ records = 0
    /\ last_failure = [k \in ProxyKeys |-> NoFailure]
    /\ last_get = NoGet

PoolInit ==
    /\ p_pc = [t \in Threads |-> "idle"]
    /\ p_call = [t \in Threads |-> NoPoolCall]
    /\ p_new = [t \in Threads |-> <<>>]

PoolIdle == PoolInit

\* add_proxy(s) by thread t
PoolAdd(t, s) ==
    /\ p_pc[t] = "idle"
    /\ proxies' = Append(proxies, from_string(s))
    /\ p_pc' = [p_pc EXCEPT ![t] = "done"]
    /\ p_call' = [p_call EXCEPT ![t] =
                     [op |-> "add", proxy |-> from_string(s), url |-> from_string(s).url]]
    /\ last_get' = NoGet
    /\ UNCHANGED <<clock, stats, rotation_strategy, current_index, records, last_failure, p_new>>
    /\ UNCHANGED <<rlVars, arlVars, antVars, drlVars, owVars, pgVars>>

\* remove_proxy(u) by thread t: [p for p in self.proxies if p.url != proxy_url]
PoolFilter(t, u) ==
    /\ p_pc[t] = "idle"
    /\ p_new' = [p_new EXCEPT ![t] = SelectSeq(proxies, LAMBDA p : p.url /= u)]
    /\ p_pc' = [p_pc EXCEPT ![t] = "filtered"]
    /\ p_call' = [p_call EXCEPT ![t] = [NoPoolCall EXCEPT !.op = "remove", !.url = u]]
    /\ last_get' = NoGet
    /\ UNCHANGED <<clock, proxies, stats, rotation_strategy, current_index, records, last_failure>>
    /\ UNCHANGED <<rlVars, arlVars, antVars, drlVars, owVars, pgVars>>

\* remove_proxy by thread t: self.proxies = the filtered list
PoolAssign(t) ==
    /\ p_pc[t] = "filtered"
    /\ proxies' = p_new[t]
    /\ p_new' = [p_new EXCEPT ![t] = <<>>]
    /\ p_pc' = [p_pc EXCEPT ![t] = "done"]
    /\ last_get' = NoGet
    /\ UNCHANGED <<clock, stats, rotation_strategy, current_index, records, last_failure, p_call>>
    /\ UNCHANGED <<rlVars, arlVars, antVars, drlVars, owVars, pgVars>>

\* ------------------------------------------------------------------------
\* Pagination helpers
\* ------------------------------------------------------------------------
\* PaginatedAnt.scrape_all_pages (base_ant.py and the template),
\* APIAnt.paginate and APIAnt.paginate_cursor of the template.  The server
\* decides what each scrape call returns.
ScrapeAllPages == {"PaginatedAnt.scrape_all_pages", "templates.PaginatedAnt.scrape_all_pages"}
Helpers == ScrapeAllPages \cup {"APIAnt.paginate", "APIAnt.paginate_cursor"}

\* the count of scrape calls is kept up to this number
MaxScrapeCalls == MaxPages + 1

\* a ScrapeResult: success, the number of items in its data, and whether the
\* page names a next page (a next link, or a next cursor)
NoPage == [success |-> FALSE, items |-> 0, next |-> FALSE]
PageResults == {NoPage} \cup {[success |-> TRUE, items |-> i, next |-> n] : i \in 0..1, n \in BOOLEAN}

\* the call was made: page = 1, cursor = None
PaginationInit ==
    /\ pg_helper \in Helpers
    /\ max_pages \in 1..MaxPages
    /\ pg_pc = "loop"
    /\ page = 1
    /\ cursor = ""
    /\ pg_calls = 0
    /\ pg_result = NoPage

PaginationIdle ==
    /\ pg_helper = "APIAnt.paginate"
    /\ max_pages = 1
    /\ pg_pc = "done"
    /\ page = 1
    /\ cursor = ""
    /\ pg_calls = 0
    /\ pg_result = NoPage

\* result = self.scrape(...) returns r
Scraped(r) ==
    /\ pg_pc = "loop"
    /\ pg_calls' = Min(pg_calls + 1, MaxScrapeCalls)
    /\ pg_result' = r
    /\ UNCHANGED <<clock, pg_helper, max_pages>>
    /\ UNCHANGED <<rlVars, arlVars, antVars, pmVars, drlVars, owVars, poolVars>>

\* one iteration of scrape_all_pages: break on a failed scrape or a page
\* without a next link, otherwise page += 1
ScrapeAllPagesStep(r) ==
    /\ pg_helper \in ScrapeAllPages
    /\ page <= max_pages
    /\ Scraped(r)
    /\ page' = IF r.success /\ r.next THEN page + 1 ELSE page
    /\ pg_pc' = IF r.success /\ r.next THEN "loop" ELSE "done"
    /\ UNCHANGED cursor

\* one iteration of paginate: break on a failed scrape or an empty page,
\* otherwise page += 1
PaginateStep(r) ==
    /\ pg_helper = "APIAnt.paginate"
    /\ page <= max_pages
    /\ Scraped(r)
    /\ page' = IF r.success /\ r.items > 0 THEN page + 1 ELSE page
    /\ pg_pc' = IF r.success /\ r.items > 0 THEN "loop" ELSE "done"
    /\ UNCHANGED cursor

\* the while condition page <= max_pages fails: return all_items
PaginationReturn ==
    /\ pg_helper /= "APIAnt.paginate_cursor"
    /\ pg_pc = "loop"
    /\ page > max_pages
    /\ pg_pc' = "done"
    /\ UNCHANGED <<clock, pg_helper, max_pages, page, cursor, pg_calls, pg_result>>
    /\ UNCHANGED <<rlVars, arlVars, antVars, pmVars, drlVars, owVars, poolVars>>

\* one iteration of paginate_cursor (while True): break on a failed scrape
\* or a page without a next cursor
PaginateCursorStep(r) ==
    /\ pg_helper = "APIAnt.paginate_cursor"
    /\ Scraped(r)
    /\ cursor' = IF r.success /\ r.next THEN "next" ELSE IF r.success THEN "" ELSE cursor
    /\ pg_pc' = IF r.success /\ r.next THEN "loop" ELSE "done"
    /\ UNCHANGED page

\* ------------------------------------------------------------------------
\* Specifications
\* ------------------------------------------------------------------------
vars == <<clock, rlVars, arlVars, antVars, pmVars, drlVars, owVars, poolVars, pgVars>>

\* concurrent callers of one RateLimiter
Init ==
    /\ clock = 0
    /\ RateLimiterInit
    /\ AdaptiveIdle
    /\ AntIdle
    /\ ProxyManagerIdle
    /\ DomainIdle
    /\ WriterIdle
    /\ PoolIdle
    /\ PaginationIdle

Next ==
    \/ \E t \in Threads : WaitEnter(t)
    \/ \E t \in Threads : WaitTake(t)
    \/ \E t \in Threads : WaitSleep(t)
    \/ \E t \in Threads : WaitReturn(t)
    \/ Tick

Spec == Init /\ [][Next]_vars

\* the least integer >= a / b, for b > 0
CeilDiv(a, b) == IF a <= 0 THEN 0 ELSE (a + b - 1) \div b

\* time.sleep(wait_time) of self.limiter.wait() at the current time, in
\* ticks: tokens + time_passed / min_interval >= 1 takes a token and sleeps
\* 0, otherwise wait_time = (1 - tokens) * min_interval
LimiterSleep(l) ==
    CeilDiv((1 - l.tokens) * l.min_interval[1] * TicksPerSecond
                - (clock - l.last_update) * l.min_interval[2],
            l.min_interval[2])

\* AdaptiveRateLimiter.wait() by one sequential caller, up to its return
AdaptiveWait ==
    /\ clock + LimiterSleep(limiter) <= MaxTime
    /\ clock' = clock + LimiterSleep(limiter)
    /\ limiter' = [limiter EXCEPT !.tokens = 0, !.last_update = clock]
    /\ a_waits' = [prev |-> a_waits.last, last |-> clock', fed |-> FALSE,
                   fed_between |-> a_waits.fed, rate |-> current_rate]
    /\ UNCHANGED <<current_rate, min_rate, max_rate, events>>
    /\ UNCHANGED <<rlVars, antVars, pmVars, drlVars, owVars, poolVars, pgVars>>

\* one sequential caller of an otherwise idle RateLimiter
NextSeq ==
    \/ WaitEnter(1)
    \/ WaitTake(1)
    \/ WaitSleep(1)
    \/ WaitReturn(1)
    \/ Tick

SpecSeq == Init /\ [][NextSeq]_vars

\* feedback events on an AdaptiveRateLimiter
InitAdaptive ==
    /\ clock = 0
    /\ RateLimiterIdle
    /\ AdaptiveInit
    /\ AntIdle
    /\ ProxyManagerIdle
    /\ DomainIdle
    /\ WriterIdle
    /\ PoolIdle
    /\ PaginationIdle

NextAdaptive ==
    \/ record_success
    \/ record_rate_limit
    \/ record_error
    \/ Tick

SpecAdaptive == InitAdaptive /\ [][NextAdaptive]_vars

\* one caller that waits on an AdaptiveRateLimiter and reports outcomes to it
NextPacing ==
    \/ AdaptiveWait
    \/ record_success
    \/ record_rate_limit
    \/ record_error
    \/ Tick

SpecPacing == InitAdaptive /\ [][NextPacing]_vars

\* scrape() calls of one BaseAnt
InitAnt ==
    /\ clock = 0
    /\ RateLimiterIdle
    /\ AdaptiveIdle
    /\ AntInit
    /\ ProxyManagerIdle
    /\ DomainIdle
    /\ WriterIdle
    /\ PoolIdle
    /\ PaginationIdle

NextAnt ==
    \/ \E n \in Netlocs : ScrapeRejected(n)
    \/ \E n \in Netlocs, d \in RateLimitDelays : ScrapeBegin(n, d)
    \/ \E o \in OkReplies, lat \in Latencies : FetchOk(o, lat)
    \/ \E o \in ServerErrorReplies, lat \in Latencies : FetchServerError(o, lat)
    \/ \E o \in ThrottledReplies, lat \in Latencies : FetchThrottled(o, lat)
    \/ \E o \in ThrottledReplies, lat \in Latencies : FetchThrottledRaises(o, lat)
    \/ \E o \in OtherReplies, lat \in Latencies : FetchOther(o, lat)
    \/ \E lat \in Latencies : FetchException(lat)
    \/ FetchExhausted
    \/ ScrapeBlocked
    \/ ScrapeExtractFails
    \/ ScrapeSucceeds

SpecAnt == InitAnt /\ [][NextAnt]_vars

\* operations on one ProxyManager
InitProxy ==
    /\ clock = 0
    /\ RateLimiterIdle
    /\ AdaptiveIdle
    /\ AntIdle
    /\ ProxyManagerInit
    /\ DomainIdle
    /\ WriterIdle
    /\ PoolIdle
    /\ PaginationIdle

NextProxy ==
    \/ \E s \in ProxyStrings : add_proxy(s)
    \/ \E k \in ProxyKeys : remove_proxy(k)
    \/ GetNextNone
    \/ GetNextRoundRobin
    \/ GetNextRandom
    \/ GetNextBest
    \/ GetNextFirst
    \/ \E k \in ProxyKeys : record_proxy_success(k, 1)
    \/ \E k \in ProxyKeys, q \in BlockSeconds : record_failure(k, q)
    \/ Tick

SpecProxy == InitProxy /\ [][NextProxy]_vars

\* concurrent callers of one DomainRateLimiter
InitDomain ==
    /\ clock = 0
    /\ RateLimiterIdle
    /\ AdaptiveIdle
    /\ AntIdle
    /\ ProxyManagerIdle
    /\ DomainInit
    /\ WriterIdle
    /\ PoolIdle
    /\ PaginationIdle

NextDomain ==
    \/ \E h \in Netlocs, rate \in DomainRates : set_rate(h, rate)
    \/ \E t \in Callers, u \in DomainUrls : DomainWait(t, u)
    \/ \E t \in Callers, h \in Netlocs : wait_for_domain(t, h)
    \/ \E t \in Callers : DomainLookup(t)
    \/ \E t \in Callers : DomainTake(t)
    \/ \E t \in Callers : DomainSleep(t)
    \/ \E t \in Callers : DomainReturn(t)
    \/ Tick

SpecDomain == InitDomain /\ [][NextDomain]_vars

\* a DomainRateLimiter whose one caller also configures rates RateLimiter() rejects
NextConfigure ==
    \/ \E h \in Netlocs, rate \in ConfigRates : set_rate(h, rate)
    \/ \E t \in Configurers, h \in Netlocs : wait_for_domain(t, h)
    \/ \E t \in Configurers : DomainLookupCreates(t)
    \/ \E t \in Configurers : DomainLookupRaises(t)
    \/ \E t \in Configurers : DomainTake(t)
    \/ \E t \in Configurers : DomainSleep(t)
    \/ \E t \in Configurers : DomainReturn(t)
    \/ Tick

SpecConfigure == InitDomain /\ [][NextConfigure]_vars

\* calls on the writers of one MultiFormatWriter
InitWriter ==
    /\ clock = 0
    /\ RateLimiterIdle
    /\ AdaptiveIdle
    /\ AntIdle
    /\ ProxyManagerIdle
    /\ DomainIdle
    /\ WriterInit
    /\ PoolIdle
    /\ PaginationIdle

NextWriter ==
    \/ \E f \in Formats : open(f)
    \/ \E f \in Formats, item \in Items : write(f, item)
    \/ \E f \in Formats : close(f)
    \/ MultiOpen
    \/ \E item \in Items : MultiWrite(item)
    \/ MultiClose

SpecWriter == InitWriter /\ [][NextWriter]_vars

\* one MultiFormatWriter whose sinks' open() and close() may raise
NextRelease ==
    \/ MultiOpen
    \/ \E k \in 1..Len(formats) : MultiOpenRaises(k)
    \/ \E item \in Items : MultiWrite(item)
    \/ MultiClose
    \/ \E k \in 1..Len(formats) : MultiCloseRaises(k)

SpecRelease == InitWriter /\ [][NextRelease]_vars

\* threads that each make one add_proxy or remove_proxy call, and get_next calls
InitPool ==
    /\ clock = 0
    /\ RateLimiterIdle
    /\ AdaptiveIdle
    /\ AntIdle
    /\ PoolManagerInit
    /\ DomainIdle
    /\ WriterIdle
    /\ PoolInit
    /\ PaginationIdle

NextPool ==
    \/ \E t \in Threads, s \in ProxyStrings : PoolAdd(t, s)
    \/ \E t \in Threads, u \in ProxyKeys : PoolFilter(t, u)
    \/ \E t \in Threads : PoolAssign(t)
    \/ GetNextNone
    \/ GetNextRoundRobin
    \/ GetNextRandom
    \/ GetNextBest
    \/ GetNextFirst
    \/ Tick

SpecPool == InitPool /\ [][NextPool]_vars

\* one call of a pagination helper; the loop keeps running until it returns
InitPagination ==
    /\ clock = 0
    /\ RateLimiterIdle
    /\ AdaptiveIdle
    /\ AntIdle
    /\ ProxyManagerIdle
    /\ DomainIdle
    /\ WriterIdle
    /\ PoolIdle
    /\ PaginationInit

NextPagination ==
    \/ \E r \in PageResults : ScrapeAllPagesStep(r)
    \/ \E r \in PageResults : PaginateStep(r)
    \/ \E r \in PageResults : PaginateCursorStep(r)
    \/ PaginationReturn

SpecPagination == InitPagination /\ [][NextPagination]_vars /\ WF_vars(NextPagination)

\* ------------------------------------------------------------------------
\* Properties of RateLimiter
\* ------------------------------------------------------------------------

\* C1: with burst = 1, N sequential wait() calls on an otherwise idle
\* limiter take at least (N-1)/r = (N-1) * min_interval from the first call
\* to the return of the N-th.
SequentialWaitsPaced ==
    (burst = 1 /\ returned >= 1) =>
        last_return - first_call >= (returned - 1) * min_interval

\* C2: the number of wait() calls returned by time t after the limiter was
\* created (at time 0) never exceeds burst + r * t.
ReturnsPaidFor ==
    returned * min_interval <= burst * min_interval + clock

\* C3: 0 <= tokens <= burst in every reachable state.
TokensWithinBurst ==
    /\ 0 <= tokens
    /\ tokens <= burst * min_interval

\* a refill that the cap cut off: the bucket is full again after some call
\* consumed a token
TokensCappedWitness ==
    /\ \E t \in Threads : pc[t] = "locked"
    /\ returned >= 1
    /\ tokens = burst * min_interval
    /\ clock - first_call > burst * min_interval

\* ------------------------------------------------------------------------
\* Properties of AdaptiveRateLimiter
\* ------------------------------------------------------------------------

\* C4: min_rate <= current_rate <= max_rate at all times, directly after
\* construction with any initial_rate and after any feedback events.
RateWithinBounds ==
    /\ RLeq(min_rate, current_rate)
    /\ RLeq(current_rate, max_rate)

\* C27: the AdaptiveRateLimiter keeps pacing across feedback events: two
\* consecutive wait() returns with a record_* call between them are at least
\* 1 / current_rate apart, so the call hands the next wait() no fresh token.
PacingKeptAcrossFeedback ==
    (a_waits.prev >= 0 /\ a_waits.fed_between) =>
        (a_waits.last - a_waits.prev) * a_waits.rate[1]
            >= a_waits.rate[2] * TicksPerSecond

\* ------------------------------------------------------------------------
\* Properties of BaseAnt
\* ------------------------------------------------------------------------
RECURSIVE Pow(_, _)
Pow(b, e) == IF e = 0 THEN 1 ELSE b * Pow(b, e - 1)

RECURSIVE SumSeq(_)
SumSeq(s) == IF s = <<>> THEN 0 ELSE Head(s) + SumSeq(Tail(s))

RECURSIVE GeometricSum(_, _)
GeometricSum(f, k) == IF k = 0 THEN 0 ELSE Pow(f, k - 1) + GeometricSum(f, k - 1)

IsServerError(o) == o.kind = "response" /\ o.status >= 500
IsThrottled(o) == o.kind = "response" /\ o.status = 429
IsClientError(o) == o.kind = "response" /\ o.status \in 400..499 /\ o.status /= 429
IsRetryable(o) == IsServerError(o) \/ IsThrottled(o) \/ o.kind = "RequestException"

\* the attempts so far: k < retry_count server errors, then a 200
ServerErrorsThenOk ==
    /\ Len(outcomes) >= 1
    /\ Len(outcomes) <= retry_count
    /\ outcomes[Len(outcomes)].kind = "response"
    /\ outcomes[Len(outcomes)].status = 200
    /\ \A i \in 1..(Len(outcomes) - 1) : IsServerError(outcomes[i])

\* C6: k < retry_count server errors followed by a 200 return that 200 on
\* attempt k+1; the i-th wait is retry_delay * retry_backoff^(i-1), and the
\* total slept is retry_delay * (1 + f + ... + f^(k-1)).
BackoffBeforeSuccess ==
    ServerErrorsThenOk =>
        /\ response = outcomes[Len(outcomes)]
        /\ Len(send_times) = Len(outcomes)
        /\ Len(sleeps) = Len(outcomes) - 1
        /\ \A i \in 1..Len(sleeps) : sleeps[i] = retry_delay * Pow(retry_backoff, i - 1)
        /\ SumSeq(sleeps) = retry_delay * GeometricSum(retry_backoff, Len(sleeps))
        /\ send_times[Len(send_times)] - send_times[1] >= SumSeq(sleeps)

\* two server errors, a growing backoff, then the 200
BackoffBeforeSuccessWitness ==
    /\ ServerErrorsThenOk
    /\ Len(outcomes) = 3
    /\ retry_backoff = 2
    /\ f_pc = "fetched"

\* C7: a 4xx other than 429 is terminal: it is not retried, and scrape()
\* returns a failure result for it.
ClientErrorTerminal ==
    \A i \in 1..Len(outcomes) :
        IsClientError(outcomes[i]) =>
            /\ i = Len(outcomes)
            /\ f_pc = "done" => (result.kind = "ScrapeResult" /\ ~result.success)

\* C8: whatever the attempts' outcomes, scrape() returns a ScrapeResult and
\* no exception propagates to the caller.
NoExceptionEscapes ==
    result.kind /= "exception"

\* C9: after a 429 whose Retry-After gives d seconds, the next attempt is
\* sent at least d seconds later.
RetryAfterHonoured ==
    \A i \in 1..(Len(send_times) - 1) :
        (IsThrottled(outcomes[i]) /\ outcomes[i].retry_after.numeric) =>
            send_times[i + 1] - send_times[i]
                >= outcomes[i].retry_after.seconds * TicksPerSecond

\* a Retry-After longer than the backoff delay, and one shorter, each
\* followed by another attempt
RetryAfterHonouredWitness ==
    /\ \E i \in 1..(Len(send_times) - 1) :
          /\ IsThrottled(outcomes[i])
          /\ outcomes[i].retry_after.numeric
          /\ outcomes[i].retry_after.seconds * TicksPerSecond > delay
    /\ \E i \in 1..(Len(send_times) - 1) :
          /\ IsThrottled(outcomes[i])
          /\ outcomes[i].retry_after.numeric
          /\ outcomes[i].retry_after.seconds * TicksPerSecond < retry_delay

\* C10: at most retry_count requests are sent and the call then returns; if
\* all retry_count attempts were retryable failures, scrape() returns
\* "Failed to fetch after retries".
FetchBounded ==
    /\ Len(send_times) <= retry_count
    /\ (f_pc = "done") => result.kind = "ScrapeResult"
    /\ (/\ f_pc = "done"
        /\ Len(outcomes) = retry_count
        /\ \A i \in 1..Len(outcomes) : IsRetryable(outcomes[i]))
       => (/\ result.kind = "ScrapeResult"
           /\ result.error = "Failed to fetch after retries")

\* C22: every HTTP request the fetch path sends, each retry attempt inside
\* one fetch included, is preceded by a rate-limit wait for the url's host
\* made after the previous request to that host: the i-th request of a
\* scrape has an i-th rate-limit wait, made between the (i-1)-th request and
\* the i-th.
EveryRequestRateLimited ==
    \A i \in 1..Len(send_times) :
        /\ Len(rate_limit_waits) >= i
        /\ rate_limit_waits[i] <= send_times[i]
        /\ i > 1 => rate_limit_waits[i] >= send_times[i - 1]

\* the feedback call the outcome of an attempt is reported with
ReportOf(o) ==
    IF o.kind = "RequestException" \/ IsServerError(o) THEN "record_error"
    ELSE IF IsThrottled(o) THEN "record_rate_limit"
    ELSE IF o.status = 200 THEN "record_success"
    ELSE "none"

\* C23: each classified attempt outcome is reported to the feedback
\* collaborators exactly once: a success by record_success, a 429 by
\* record_rate_limit, a server error or a transport failure by record_error.
OutcomesReportedOnce ==
    \A i \in 1..Len(outcomes) :
        ReportOf(outcomes[i]) /= "none" =>
            /\ Cardinality({k \in 1..Len(feedback) : feedback[k].attempt = i}) = 1
            /\ \E k \in 1..Len(feedback) :
                  /\ feedback[k].attempt = i
                  /\ feedback[k].op = ReportOf(outcomes[i])

\* C26: the backoff delay is multiplied by retry_backoff after every
\* retryable failure, a 5xx, a 429 or a transport exception alike: after j
\* such failures delay = retry_delay * retry_backoff^j, and a 429 without a
\* Retry-After header waits exactly the delay current at that attempt.
BackoffAfterEveryFailure ==
    /\ Len(sleeps) >= 1 => delay = retry_delay * Pow(retry_backoff, Len(sleeps))
    /\ \A i \in 1..Len(sleeps) :
          (IsThrottled(outcomes[i]) /\ ~outcomes[i].retry_after.present)
              => sleeps[i] = retry_delay * Pow(retry_backoff, i - 1)

\* ------------------------------------------------------------------------
\* Properties of ProxyManager
\* ------------------------------------------------------------------------
OnlyProxy(pool, p) == pool /= <<>> /\ \A j \in 1..Len(pool) : pool[j] = p

\* C5: after record_failure(p, q) with q > 0 at time t, a get_next() made in
\* [t, t+q) does not return p; with p the only proxy in the pool, get_next()
\* returns None before t+q and p from t+q on.
QuarantineElapses ==
    last_get.called =>
        \A i \in 1..Len(proxies) :
            LET p == proxies[i]
                f == last_failure[p.url]
            IN  (f.at >= 0 /\ f.seconds > 0) =>
                    /\ clock < f.at + f.seconds => last_get.value /= full_url(p)
                    /\ (OnlyProxy(proxies, p) /\ clock < f.at + f.seconds)
                           => last_get.value = NoProxy
                    /\ (OnlyProxy(proxies, p) /\ clock >= f.at + f.seconds)
                           => last_get.value = full_url(p)

\* C18: get_next() returns None exactly when the pool is empty or every
\* pooled proxy is quarantined at the time of the call; otherwise it returns
\* the connection string of a pooled proxy whose blocked_until is earlier
\* than now.
GetNextAvailable ==
    last_get.called =>
        /\ last_get.value = NoProxy <=>
               \A i \in 1..Len(proxies) : ~(stats[proxies[i].url].blocked_until < clock)
        /\ last_get.value /= NoProxy =>
               \E i \in 1..Len(proxies) :
                   /\ full_url(proxies[i]) = last_get.value
                   /\ stats[proxies[i].url].blocked_until < clock

\* a pool of two proxies, the first quarantined: get_next() returned the second
GetNextAvailableWitness ==
    /\ last_get.called
    /\ Len(proxies) = 2
    /\ proxies[1] /= proxies[2]
    /\ stats[proxies[1].url].blocked_until >= clock
    /\ stats[proxies[1].url].blocked_until > 0
    /\ last_get.value = full_url(proxies[2])

\* C19: under 'best', get_next() returns an available proxy whose success
\* rate, successes / (successes + failures) or 0.5 without observations, is
\* maximal among the available proxies.
BestIsMaximal ==
    (rotation_strategy = "best" /\ last_get.called /\ last_get.value /= NoProxy) =>
        \E i \in 1..Len(proxies) :
            /\ full_url(proxies[i]) = last_get.value
            /\ stats[proxies[i].url].blocked_until < clock
            /\ \A j \in 1..Len(proxies) :
                   stats[proxies[j].url].blocked_until < clock =>
                       RLeq(success_rate(stats[proxies[j].url]),
                            success_rate(stats[proxies[i].url]))

\* two available proxies, the second of the higher rate: 'best' returned it
BestIsMaximalWitness ==
    /\ rotation_strategy = "best"
    /\ last_get.called
    /\ Len(proxies) = 2
    /\ stats[proxies[1].url].blocked_until < clock
    /\ stats[proxies[2].url].blocked_until < clock
    /\ ~RLeq(success_rate(stats[proxies[2].url]), success_rate(stats[proxies[1].url]))
    /\ last_get.value = full_url(proxies[2])
    /\ last_get.value /= full_url(proxies[1])

\* C20: for every interleaving of concurrent add_proxy(a) and
\* remove_proxy(b) calls with a /= b, and get_next calls, once all have
\* completed the pool contains a (if no call removed it) and does not
\* contain b (if no call added it).
NoLostPoolUpdate ==
    (\A t \in Threads : p_pc[t] = "done") =>
        \A t1 \in Threads :
            /\ (/\ p_call[t1].op = "add"
                /\ \A t2 \in Threads :
                      p_call[t2].op = "remove" => p_call[t2].url /= p_call[t1].url)
               => \E i \in 1..Len(proxies) : proxies[i] = p_call[t1].proxy
            /\ (/\ p_call[t1].op = "remove"
                /\ \A t2 \in Threads :
                      p_call[t2].op = "add" => p_call[t2].url /= p_call[t1].url)
               => \A i \in 1..Len(proxies) : proxies[i].url /= p_call[t1].url

\* C28: the string get_next() returns identifies the proxy to the feedback
\* operations: record_failure(get_next(), q) with q > 0 quarantines the
\* proxy that was returned, and record_success(get_next(), t) adds a success
\* to the statistics get_stats() reports for it (those kept under its url).
FeedbackReachesProxy ==
    [][\A i \in 1..Len(proxies) :
          LET p == proxies[i]
              k == full_url(p)
          IN  (/\ last_get.called
               /\ last_get.value = k
               /\ records' = records + 1
               /\ stats'[k] /= stats[k])
              => /\ (stats'[k].failures > stats[k].failures /\ last_failure'[k].seconds > 0)
                     => stats'[p.url].blocked_until > clock
                 /\ stats'[k].successes > stats[k].successes
                     => stats'[p.url].successes = stats[p.url].successes + 1]_vars

\* C29: blocked_until of each proxy never decreases, whatever the sequence
\* of record_success, record_failure and get_next calls: a later, shorter
\* quarantine does not shorten a longer one.
BlockedUntilMonotonic ==
    [][\A k \in ProxyKeys : stats'[k].blocked_until >= stats[k].blocked_until]_vars

\* ------------------------------------------------------------------------
\* Properties of DomainRateLimiter
\* ------------------------------------------------------------------------

\* C11: after set_rate(host, r) returns, the next wait(url) or
\* wait_for_domain(host) for that host that completes is paced by a limiter
\* configured with rate r (min_interval = 1/r), whether or not a limiter for
\* the host existed before the set_rate.
SetRateTakesEffect ==
    (paced /= NoWait /\ domain_rates[paced.host] /= NoRate) =>
        paced.min_interval * domain_rates[paced.host][1] = domain_rates[paced.host][2]

\* C12: waits for two different hosts never block on each other: the map
\* lock is not held once the limiter has been looked up (so never during a
\* sleep), a caller for another host can enter while one sleeps, and a
\* sleeper wakes within the min_interval of its own host's limiter.
DomainWaitsIndependent ==
    /\ \A t \in Callers : d_pc[t] \in {"got", "sleeping"} => d_lock /= t
    /\ \A t \in Callers :
          d_pc[t] = "sleeping" =>
              d_wake[t] <= limiters[d_host[t]].last_update
                               + limiters[d_host[t]].min_interval
    /\ \A t1, t2 \in Callers :
          (d_pc[t1] = "sleeping" /\ d_pc[t2] = "idle") =>
              \A h \in Netlocs \ {d_host[t1]} :
                  \/ d_lock \in Callers \ {t1, t2}
                  \/ ENABLED wait_for_domain(t2, h)

\* one caller sleeps for host A's token while another, who came later,
\* already holds host B's limiter, of another rate
DomainWaitsIndependentWitness ==
    \E t1, t2 \in Callers :
        /\ d_pc[t1] = "sleeping"
        /\ d_host[t1] = NetlocA
        /\ d_wake[t1] > clock
        /\ d_pc[t2] = "got"
        /\ d_host[t2] = NetlocB
        /\ limiters[NetlocB].min_interval /= limiters[NetlocA].min_interval

\* C21: at most one RateLimiter is created per host: once a host has a
\* limiter it is never removed or replaced (its min_interval stays, and its
\* state changes only through the wait() of a caller that looked it up), so
\* all callers for the host go through one token bucket.
OneLimiterPerHost ==
    [][\A h \in Netlocs :
          limiters[h] /= NoLimiter =>
              /\ limiters'[h] /= NoLimiter
              /\ limiters'[h].min_interval = limiters[h].min_interval
              /\ limiters'[h] /= limiters[h] =>
                     \E t \in Callers :
                         /\ d_pc[t] = "got"
                         /\ d_host[t] = h
                         /\ d_pc'[t] \in {"idle", "sleeping"}]_vars

\* two callers for one host: one sleeps for the token of the limiter that the
\* other has just looked up, at a time when the host's rate has been changed
OneLimiterPerHostWitness ==
    \E t1, t2 \in Callers :
        /\ d_pc[t1] = "sleeping"
        /\ d_pc[t2] = "got"
        /\ d_host[t1] = d_host[t2]
        /\ limiters[d_host[t1]].tokens = 0
        /\ domain_rates[d_host[t1]] /= NoRate
        /\ limiters[d_host[t1]].min_interval * domain_rates[d_host[t1]][1]
               /= domain_rates[d_host[t1]][2]

\* C24: a rate <= 0 is rejected at the configuring call: set_rate(host, rate)
\* raises for every rate <= 0 and stores nothing, so no stored rate is <= 0,
\* and an invalid rate never first surfaces as an exception of a later wait().
InvalidRateRejected ==
    /\ \A h \in Netlocs : domain_rates[h] /= NoRate => domain_rates[h][1] > 0
    /\ \A t \in Callers : d_pc[t] /= "raised"

\* ------------------------------------------------------------------------
\* Properties of the output writers
\* ------------------------------------------------------------------------
\* the chunks of s that sep ends; what follows the last sep is a chunk too
RECURSIVE SplitAt(_, _)
SplitAt(s, sep) ==
    IF s = <<>> THEN <<>>
    ELSE IF \E i \in 1..Len(s) : s[i] = sep
    THEN LET first == CHOOSE i \in 1..Len(s) :
                         s[i] = sep /\ \A j \in 1..(i - 1) : s[j] /= sep
         IN  <<SubSeq(s, 1, first - 1)>> \o SplitAt(SubSeq(s, first + 1, Len(s)), sep)
    ELSE <<s>>

\* the lines of a JSON Lines file
JsonlRecords(dest) == SplitAt(dest, "\n")

\* the rows of a CSV file other than header rows, each as its line
CsvRecords(dest, fieldnames) ==
    SelectSeq([i \in 1..Len(SplitAt(dest, "\r\n")) |->
                  SplitAt(dest, "\r\n")[i] \o <<"\r\n">>],
              LAMBDA row : row /= writeheader(fieldnames))

\* C13: after a MultiFormatWriter.write(item), returned or raised (the
\* exception is what tells the caller of the failure), every sink recorded
\* the item if the call returned, and a repeated write of an item whose
\* previous write failed does not make a sink that had accepted it record it
\* a second time.
FanOutAllOrReported ==
    (w_last.op = "write" /\ w_last.fmt = "multi") =>
        /\ ~w_last.raised => w_last.recorded = Range(formats)
        /\ w_last.recorded \cap w_last.accepted_before = {}

\* C14: JsonLinesWriter and CsvWriter are append-only: every record whose
\* write() returned is in the destination after any later open(), write()
\* and close(), and count is the number of records in the destination.
AppendOnly ==
    /\ \A i \in 1..Len(writers["jsonl"].written) :
          \E j \in 1..Len(JsonlRecords(writers["jsonl"].dest)) :
              JsonlRecords(writers["jsonl"].dest)[j]
                  = json_dumps(writers["jsonl"].written[i])
    /\ writers["jsonl"].count = Len(JsonlRecords(writers["jsonl"].dest))
    /\ \A i \in 1..Len(writers["csv"].written) :
          \E j \in 1..Len(CsvRecords(writers["csv"].dest, writers["csv"].fieldnames)) :
              CsvRecords(writers["csv"].dest, writers["csv"].fieldnames)[j]
                  = CsvLine(RowCells(writers["csv"].fieldnames,
                                     writers["csv"].written[i]))
    /\ writers["csv"].count
           = Len(CsvRecords(writers["csv"].dest, writers["csv"].fieldnames))

\* C15: once the first record fixed a CsvWriter's columns, the later
\* records whose field set differs (missing or extra fields) all get the
\* same outcome, always padded/projected or always an error, and a record
\* whose fields are the columns is written with all its columns.
CsvMismatchUniform ==
    /\ Cardinality(mismatch_outcomes) <= 1
    /\ w_last.csv = "match" =>
          /\ ~w_last.raised
          /\ LET rows == CsvRecords(writers["csv"].dest, writers["csv"].fieldnames)
             IN  /\ rows /= <<>>
                 /\ rows[Len(rows)]
                        = CsvLine([i \in 1..Len(writers["csv"].fieldnames) |->
                                      Cell(w_last.item, writers["csv"].fieldnames[i])])
                 /\ \A i \in 1..Len(w_last.item) :
                        \E k \in 1..Len(writers["csv"].fieldnames) :
                            writers["csv"].fieldnames[k] = w_last.item[i][1]

\* C16: for every writer type, a second close() opens nothing, writes
\* nothing and raises nothing.
CloseIdempotent ==
    (w_last.op = "close" /\ w_last.repeat) =>
        /\ w_last.opened = {}
        /\ w_last.changed = {}
        /\ ~w_last.raised

\* C17: a JsonLinesWriter opened once holds exactly one line per written
\* record, line i being the serialization of the i-th record, and count is k
\* after the k-th write, whatever the records' field sets.
JsonLinesInOrder ==
    writers["jsonl"].opens <= 1 =>
        /\ JsonlRecords(writers["jsonl"].dest)
               = [i \in 1..Len(writers["jsonl"].written) |->
                     json_dumps(writers["jsonl"].written[i])]
        /\ writers["jsonl"].count = Len(writers["jsonl"].written)

\* two records of different field sets written to a JsonLinesWriter that
\* was opened once and has just been closed
JsonLinesInOrderWitness ==
    /\ w_last.op = "close"
    /\ writers["jsonl"].opens = 1
    /\ ~writers["jsonl"].file
    /\ Len(writers["jsonl"].written) >= 2
    /\ Range(Keys(writers["jsonl"].written[1]))
           /= Range(Keys(writers["jsonl"].written[2]))

\* C25: output resources are released on every exit path: after a
\* MultiFormatWriter.open() that raised, or a MultiFormatWriter.close() that
\* returned or raised (the two ends of a with block), no sink holds an open
\* file.
SinksReleased ==
    (/\ w_last.fmt = "multi"
     /\ \/ w_last.op = "close"
        \/ w_last.op = "open" /\ w_last.raised)
    => \A f \in Range(formats) : ~writers[f].file

\* ------------------------------------------------------------------------
\* Properties of the pagination helpers
\* ------------------------------------------------------------------------
\* C30: every pagination helper terminates after a bounded number of scrape
\* calls whatever the server answers: each call eventually returns, and
\* scrape_all_pages and paginate make at most max_pages scrape calls.
PaginationTerminates ==
    /\ <>(pg_pc = "done")
    /\ [](pg_helper /= "APIAnt.paginate_cursor" => pg_calls <= max_pages)

====
